---- MODULE Spec2Model ----
(***************************************************************************)
(* Model of the yggdrasil session proxy (src/src/main.rs): the session     *)
(* table behind a tokio Mutex, its persisted JSON document, and the two    *)
(* request handlers join_handler and has_joined_handler, each split at     *)
(* its .await points.                                                      *)
(*                                                                         *)
(* Strings that the code lower-cases or compares are sequences of          *)
(* one-character strings; opaque tokens are plain strings.  A u64 is an    *)
(* integer v: v >= 0 stands for itself, v < 0 stands for 2^64 + v, so the  *)
(* values near both ends of the u64 range are representable.               *)
(*                                                                         *)
(* Spec is the serving process, SpecRestart adds restarts of the process   *)
(* and a table kept at the --sessions path, FairSpec adds the fairness     *)
(* under which progress is stated.                                         *)
(***************************************************************************)
EXTENDS Integers, Sequences, FiniteSets, TLC

\* ---------------------------------------------------------------- bounds
\* how often the clock advances in a run
MaxTicks == 1

\* the requests of a run, and by how much the clock advances at once
Slots == { 1, 2 }
TickSteps == { 60, 61 }

\* ------------------------------------------------------------- constants
\* the session validity window of the prune pass and of the expiry test
Window == 60

None == << >>
Some(x) == << x >>

\* ------------------------------------------------------------ input sets
Usernames == { <<"A","l">>, <<"a","L">>, <<"B","o">> }
Profiles == { <<"P">>, <<"p">> }
Servers == { "s1", "s2" }
Credentials == { "k1", "kx" }
Statuses == { 204, 403 }
Bodies == { "body1", "body2" }

\* the static account table of the File backend (credential -> profile)
AccountFile == "k1" :> <<"P">>

\* ------------------------------------------------------------------ u64
\* unsigned comparison of two u64 values
ULt(a, b) == IF (a < 0) = (b < 0) THEN a < b ELSE b < 0
ULe(a, b) == a = b \/ ULt(a, b)
\* u64::saturating_sub
SaturatingSub(a, b) == IF ULt(a, b) THEN 0 ELSE a - b
\* the `-` of u64 without overflow checks: the difference modulo 2^64
WrappingSub(a, b) == a - b

\* ------------------------------------------------------------- strings
LowerChar(c) ==
    CASE c = "A" -> "a"
      [] c = "B" -> "b"
      [] c = "L" -> "l"
      [] c = "O" -> "o"
      [] c = "P" -> "p"
      [] c = "Q" -> "q"
      [] OTHER -> c
\* str::to_lowercase
ToLowercase(s) == [i \in DOMAIN s |-> LowerChar(s[i])]

\* ------------------------------------------------------- session table
\* HashMap<String, Session> and HashMap<String, u64> as functions
EmptyMap == [x \in {} |-> 0]
Restrict(f, S) == [x \in S |-> f[x]]

\* the prune test of join_handler: the entry is retained
Retained(t, now) == ULe(SaturatingSub(now, t), Window)

\* `for session in sessions.values_mut() { session.servers.retain(..) }`
Prune(tbl, now) ==
    [k \in DOMAIN tbl |->
        [uuid |-> tbl[k].uuid,
         servers |-> Restrict(tbl[k].servers,
                        {s \in DOMAIN tbl[k].servers : Retained(tbl[k].servers[s], now)})]]

\* an insert that replaces the session of the username
EntryInsert(tbl, username, uuid) ==
    (username :> [uuid |-> uuid, servers |-> EmptyMap]) @@ tbl
\* `sessions.entry(username).or_insert(Session { uuid, servers: new })`
EntryOrInsert(tbl, username, uuid) ==
    IF username \in DOMAIN tbl
    THEN tbl
    ELSE tbl @@ (username :> [uuid |-> uuid, servers |-> EmptyMap])

\* `sessions.get_mut(&username).unwrap().servers.insert(serverId, now)`
InsertServer(tbl, username, serverId, now) ==
    [tbl EXCEPT ![username].servers = (serverId :> now) @@ @]

\* a read-modify-write that starts from an empty table instead of the
\* shared one
RecordJoinFresh(tbl, username, uuid, serverId, now) ==
    InsertServer(EntryOrInsert(EmptyMap, username, uuid), username, serverId, now)
\* the locked span of join_handler up to the write of the document
RecordJoin(tbl, username, uuid, serverId, now) ==
    InsertServer(EntryOrInsert(Prune(tbl, now), username, uuid),
                 username, serverId, now)

\* the expiry test of has_joined_handler, `timestamp >= now - 60`, as a
\* build without overflow checks evaluates it
Unexpired(timestamp, now) == ULe(WrappingSub(now, Window), timestamp)
\* `now - 60` overflows: a build with overflow checks panics there
ExpiryOverflows(now) == ULt(now, Window)

\* the lookup of has_joined_handler: is there an entry to test at all
HasEntry(tbl, username, serverId) ==
    /\ username \in DOMAIN tbl
    /\ serverId \in DOMAIN tbl[username].servers

\* the lookup of has_joined_handler: the local path is taken
LocalHit(tbl, username, serverId, now) ==
    /\ HasEntry(tbl, username, serverId)
    /\ Unexpired(tbl[username].servers[serverId], now)

\* ------------------------------------------------------------ documents
\* serde_json::to_string(&*sessions): one member per username
ToJson(tbl) ==
    { << k, tbl[k].uuid,
         { << s, tbl[k].servers[s] >> : s \in DOMAIN tbl[k].servers } >>
      : k \in DOMAIN tbl }

\* serde_json::from_str::<HashMap<String, Session>> of such a document
FromJson(doc) ==
    [k \in { m[1] : m \in doc } |->
        LET m == CHOOSE x \in doc : x[1] = k
        IN  [uuid |-> m[2],
             servers |-> [s \in { e[1] : e \in m[3] } |->
                            (CHOOSE e \in m[3] : e[1] = s)[2]]]]

Absent == << "absent" >>
Garbage == << "garbage" >>
JsonFile(doc) == << "json", doc >>

\* `serde_json::from_str(&fs::read_to_string(path).unwrap()).unwrap_or_default()`
\* for a file that could be read
LoadSessions(content) ==
    IF content[1] = "json" THEN FromJson(content[2]) ELSE EmptyMap

\* ------------------------------------------------------- request bodies
\* a JSON object is a set of <<field, value>>; a value is a string or null
JStr(x) == << "s", x >>
JNull == << "n" >>

Field(body, name) ==
    IF \E m \in body : m[1] = name
    THEN Some((CHOOSE m \in body : m[1] = name)[2])
    ELSE None

\* Deserialize for JoinRequest: unknown fields are ignored, authString
\* defaults to None and null is None
ParseAuth(body) ==
    LET f == Field(body, "authString")
    IN  IF f = None \/ f[1] = JNull THEN None ELSE Some(f[1][2])
ParseProfile(body) == Field(body, "selectedProfile")[1][2]
ParseServer(body) == Field(body, "serverId")[1][2]

\* Serialize for JoinRequest (`.json(&payload)`): exactly its three fields
SerializeJoin(selectedProfile, serverId, authString) ==
    { << "selectedProfile", JStr(selectedProfile) >>,
      << "serverId", JStr(serverId) >>,
      << "authString", IF authString = None THEN JNull ELSE JStr(authString[1]) >> }

\* a conversion that accepts only the statuses below 400
FromU16Below400(n) == IF 100 <= n /\ n < 400 THEN Some(n) ELSE None
\* StatusCode::from_u16(resp.status().as_u16())
FromU16(n) == IF 100 <= n /\ n < 1000 THEN Some(n) ELSE None

\* ------------------------------------------------------------ the state
VARIABLES
    phase,      \* "boot", "serving" or "crashed": where main() is
    accounts,   \* "File" or "API": the AccountServerKind built by main()
    sessions_path, \* the path main() loads the table from, "" before main()
    files,      \* the file system: path -> content
    sessions,   \* the HashMap behind the Mutex
    lock,       \* the request whose handler holds the Mutex guard, 0 when free
    clock,      \* SystemTime::now() in seconds since the epoch
    ticks,      \* how often the clock has advanced
    req         \* per request: its input, its locals and its response

vars == << phase, accounts, sessions_path, files, sessions, lock, clock, ticks, req >>

Paths == { "sessions.json", "alt.json" }
StartClocks == { 30 }

\* a document left by an earlier run
OldTable == << "a", "l" >> :> [uuid |-> << "p" >>, servers |-> ("s1" :> 30)]

InitFiles ==
    { [p \in Paths |-> Absent],
      ("sessions.json" :> Garbage) @@ ("alt.json" :> Absent),
      ("sessions.json" :> JsonFile(ToJson(OldTable))) @@ ("alt.json" :> Absent) }
\* the document of the earlier run is at the path given with --sessions
AltFiles ==
    { ("sessions.json" :> Absent) @@ ("alt.json" :> JsonFile(ToJson(OldTable))) }

\* join bodies: with a credential, and without one
JoinBody(p, s, k) ==
    { << "selectedProfile", JStr(p) >>, << "serverId", JStr(s) >>,
      << "authString", JStr(k) >> }
CredentialBodies ==
    { JoinBody(<< "P" >>, "s1", "k1"), JoinBody(<< "P" >>, "s2", "k1"),
      JoinBody(<< "p" >>, "s1", "k1"), JoinBody(<< "P" >>, "s1", "kx") }
PlainBodies ==
    { { << "selectedProfile", JStr(<< "P" >>) >>, << "serverId", JStr("s1") >>,
        << "authString", JNull >> },
      { << "selectedProfile", JStr(<< "P" >>) >>, << "serverId", JStr("s1") >>,
        << "accessToken", JStr("t") >> } }
JoinBodies == CredentialBodies \cup PlainBodies

Idle ==
    [kind |-> "none", pc |-> "idle", body |-> {}, selectedProfile |-> << >>,
     serverId |-> "", authString |-> None, qname |-> << >>, name |-> << >>,
     username |-> << >>, now |-> 0, recAt |-> 0, acct |-> FALSE, acctRes |-> None,
     call |-> << >>, path |-> "", created |-> FALSE, wrote |-> FALSE,
     reply |-> << >>, status |-> 0, rbody |-> "", fault |-> ""]

\* requests are numbered in the order they arrive
Accepts(i) == req[i].pc = "idle" /\ \A j \in Slots : j < i => req[j].pc # "idle"

Init ==
    /\ phase = "boot"
    /\ accounts \in { "File", "API" }
    /\ sessions_path = ""
    /\ files \in InitFiles
    /\ sessions = EmptyMap
    /\ lock = 0
    /\ clock \in StartClocks
    /\ ticks = 0
    /\ req = [i \in Slots |-> Idle]

\* main(): `args.sessions.unwrap_or("sessions.json")`, read, parse, serve
Main(arg) ==
    /\ phase = "boot"
    /\ LET path == IF arg = None THEN "sessions.json" ELSE arg[1]
       IN  IF files[path] = Absent
           THEN /\ phase' = "crashed"
                /\ UNCHANGED sessions
           ELSE /\ phase' = "serving"
                /\ sessions' = LoadSessions(files[path])
    /\ sessions_path' = IF arg = None THEN "sessions.json" ELSE arg[1]
    /\ UNCHANGED << accounts, files, lock, clock, ticks, req >>

Tick(d) ==
    /\ phase = "serving"
    /\ ticks < MaxTicks
    /\ clock' = clock + d
    /\ ticks' = ticks + 1
    /\ UNCHANGED << phase, accounts, sessions_path, files, sessions, lock, req >>

\* AccountServerKind::get
AccountResults(kind, k) ==
    IF kind = "File"
    THEN { IF k \in DOMAIN AccountFile THEN Some(AccountFile[k]) ELSE None }
    ELSE { None } \cup { Some(p) : p \in Profiles }

\* A handler that panics (an unwrap() on an error, an arithmetic overflow)
\* unwinds: its guard is dropped, the connection is closed without a
\* response, and the server keeps running.  `fault` records what panicked.

\* join_handler up to its first upstream await: the resolver lookup, the
\* clock sample and, without a credential, the POST of the re-encoded payload
JoinStart(i, body, dnsOk) ==
    /\ phase = "serving"
    /\ Accepts(i)
    /\ LET auth == ParseAuth(body)
           r == [Idle EXCEPT !.kind = "join", !.body = body,
                             !.selectedProfile = ParseProfile(body),
                             !.serverId = ParseServer(body),
                             !.authString = auth]
       IN  req' = [req EXCEPT ![i] =
               IF ~dnsOk THEN [Idle EXCEPT !.kind = "join", !.pc = "panicked",
                                           !.fault = "resolver"]
               ELSE IF auth # None THEN [r EXCEPT !.pc = "acct", !.now = clock]
               ELSE [r EXCEPT !.pc = "proxy", !.now = clock,
                              !.call = << "POST join",
                                          SerializeJoin(r.selectedProfile, r.serverId, auth) >>]]
    /\ UNCHANGED << phase, accounts, sessions_path, files, sessions, lock, clock, ticks >>

\* a comparison of the resolved name that ignores letter case
AuthorizedAnyCase(res, selectedProfile) ==
    res # None /\ ToLowercase(res[1]) = ToLowercase(selectedProfile)
\* whether the resolved account admits the asserted profile
Authorized(res, selectedProfile) == res # None /\ res[1] = selectedProfile

\* `accounts.get(&auth).await` returns; on a match the profile GET is sent
JoinAccount(i, res) ==
    /\ req[i].kind = "join" /\ req[i].pc = "acct"
    /\ res \in AccountResults(accounts, req[i].authString[1])
    /\ req' = [req EXCEPT ![i] =
           IF Authorized(res, req[i].selectedProfile)
           THEN [@ EXCEPT !.pc = "profile", !.acct = TRUE, !.acctRes = res,
                          !.call = << "GET profile", req[i].selectedProfile >>]
           ELSE [@ EXCEPT !.pc = "done", !.acct = TRUE, !.acctRes = res,
                          !.status = 401]]
    /\ UNCHANGED << phase, accounts, sessions_path, files, sessions, lock, clock, ticks >>

\* what the profile GET of a join can yield: a transport error, a body that
\* is not JSON, JSON without a string `name`, or a name
ProfileOutcomes == { << "err" >>, << "badjson" >>, << "noname" >> }
                      \cup { << "name", n >> : n \in Usernames }

JoinProfile(i, out) ==
    /\ req[i].kind = "join" /\ req[i].pc = "profile"
    /\ req' = [req EXCEPT ![i] =
           CASE out[1] = "err" -> [@ EXCEPT !.pc = "panicked", !.fault = "transport"]
             [] out[1] = "badjson" -> [@ EXCEPT !.pc = "panicked", !.fault = "decode"]
             [] out[1] = "noname" -> [@ EXCEPT !.pc = "done", !.status = 503]
             [] OTHER -> [@ EXCEPT !.pc = "lock", !.name = out[2],
                                   !.username = ToLowercase(out[2])]]
    /\ UNCHANGED << phase, accounts, sessions_path, files, sessions, lock, clock, ticks >>

\* fs::write("sessions.json", ..): the document, or on an error the old
\* content ("keep") or a truncated file ("trunc")
WriteResults == { "ok", "keep", "trunc" }
WriteFile(old, doc, w) ==
    CASE w = "ok" -> JsonFile(doc)
      [] w = "keep" -> old
      [] OTHER -> Garbage

\* the locked span of join_handler: lock, prune, insert, write, return
JoinRecord(i, w) ==
    /\ req[i].kind = "join" /\ req[i].pc = "lock"
    /\ lock = 0
    /\ sessions' = RecordJoin(sessions, req[i].username, req[i].selectedProfile,
                              req[i].serverId, req[i].now)
    /\ files' = [files EXCEPT !["sessions.json"] = WriteFile(@, ToJson(sessions'), w)]
    /\ LET r == [req[i] EXCEPT !.recAt = clock, !.wrote = TRUE,
                                !.created = (req[i].username \notin DOMAIN sessions)]
       IN  req' = [req EXCEPT ![i] =
               IF w = "ok" THEN [r EXCEPT !.pc = "done", !.status = 204]
               ELSE [r EXCEPT !.pc = "panicked", !.fault = "write"]]
    /\ UNCHANGED << phase, accounts, sessions_path, lock, clock, ticks >>

\* the upstream join answers the forwarded request
JoinProxy(i, out) ==
    /\ req[i].kind = "join" /\ req[i].pc = "proxy"
    /\ req' = [req EXCEPT ![i] =
           IF out[1] = "err"
           THEN [@ EXCEPT !.pc = "panicked", !.reply = out, !.fault = "transport"]
           ELSE IF FromU16(out[2]) = None
           THEN [@ EXCEPT !.pc = "panicked", !.reply = out, !.fault = "status"]
           ELSE [@ EXCEPT !.pc = "done", !.reply = out, !.status = FromU16(out[2])[1]]]
    /\ UNCHANGED << phase, accounts, sessions_path, files, sessions, lock, clock, ticks >>

\* has_joined_handler up to `sessions.lock().await`: the resolver lookup,
\* the clock sample and the lower-casing of the queried name
HasJoinedStart(i, qname, serverId, dnsOk) ==
    /\ phase = "serving"
    /\ Accepts(i)
    /\ LET r == [Idle EXCEPT !.kind = "hasJoined", !.qname = qname,
                             !.serverId = serverId]
       IN  req' = [req EXCEPT ![i] =
               IF ~dnsOk THEN [Idle EXCEPT !.kind = "hasJoined", !.pc = "panicked",
                                           !.fault = "resolver"]
               ELSE [r EXCEPT !.pc = "lock", !.now = clock,
                              !.username = ToLowercase(qname)]]
    /\ UNCHANGED << phase, accounts, sessions_path, files, sessions, lock, clock, ticks >>

\* a lookup that prunes the table before it looks the entry up
HasJoinedLockPruning(i, checks) ==
    /\ req[i].kind = "hasJoined" /\ req[i].pc = "lock"
    /\ lock = 0
    /\ sessions' = Prune(sessions, req[i].now)
    /\ req' = [req EXCEPT ![i] =
           IF LocalHit(sessions', req[i].username, req[i].serverId, req[i].now)
           THEN [@ EXCEPT !.pc = "hit", !.path = "hit",
                          !.call = << "GET profile unsigned=false",
                                      sessions[req[i].username].uuid >>]
           ELSE [@ EXCEPT !.pc = "miss", !.path = "miss",
                          !.call = << "GET hasJoined", req[i].serverId, req[i].username >>]]
    /\ lock' = i
    /\ UNCHANGED << phase, accounts, sessions_path, files, clock, ticks >>
\* the guard is taken and the table is looked up; the request that follows
\* is sent with the guard still alive.  `checks` is whether the build panics
\* on arithmetic overflow.
HasJoinedLock(i, checks) ==
    /\ req[i].kind = "hasJoined" /\ req[i].pc = "lock"
    /\ lock = 0
    /\ LET r == req[i] IN
       IF HasEntry(sessions, r.username, r.serverId) /\ ExpiryOverflows(r.now) /\ checks
       THEN /\ req' = [req EXCEPT ![i] = [@ EXCEPT !.pc = "panicked", !.path = "overflow",
                                                      !.fault = "overflow"]]
            /\ lock' = 0
       ELSE IF LocalHit(sessions, r.username, r.serverId, r.now)
       THEN /\ req' = [req EXCEPT ![i] =
                   [@ EXCEPT !.pc = "hit", !.path = "hit",
                             !.call = << "GET profile unsigned=false",
                                         sessions[r.username].uuid >>]]
            /\ lock' = i
       ELSE /\ req' = [req EXCEPT ![i] =
                   [@ EXCEPT !.pc = "miss", !.path = "miss",
                             !.call = << "GET hasJoined", r.serverId, r.username >>]]
            /\ lock' = i
    /\ UNCHANGED << phase, accounts, sessions_path, files, sessions, clock, ticks >>

\* what an upstream GET of has_joined_handler can yield: a transport error,
\* a response whose body cannot be read, or a status and a body
UpstreamOutcomes ==
    { << "err" >>, << "texterr" >> }
        \cup { << "ok", st, b >> : st \in Statuses, b \in Bodies }

\* a relay whose guard is not released when the handler panics
HasJoinedRelayLeaks(i, out) ==
    /\ req[i].kind = "hasJoined" /\ req[i].pc \in { "hit", "miss" }
    /\ lock = i
    /\ req' = [req EXCEPT ![i] =
           IF out[1] # "ok"
           THEN [@ EXCEPT !.pc = "panicked", !.reply = out, !.fault = "transport"]
           ELSE [@ EXCEPT !.pc = "done", !.reply = out, !.status = out[2],
                          !.rbody = out[3]]]
    /\ lock' = IF out[1] # "ok" THEN i ELSE 0
    /\ UNCHANGED << phase, accounts, sessions_path, files, sessions, clock, ticks >>
\* the answer to either GET of has_joined_handler is relayed; the guard is
\* dropped when the handler returns or unwinds
HasJoinedRelay(i, out) ==
    /\ req[i].kind = "hasJoined" /\ req[i].pc \in { "hit", "miss" }
    /\ lock = i
    /\ req' = [req EXCEPT ![i] =
           IF out[1] # "ok"
           THEN [@ EXCEPT !.pc = "panicked", !.reply = out, !.fault = "transport"]
           ELSE IF FromU16(out[2]) = None
           THEN [@ EXCEPT !.pc = "panicked", !.reply = out, !.fault = "status"]
           ELSE [@ EXCEPT !.pc = "done", !.reply = out, !.status = FromU16(out[2])[1],
                          !.rbody = out[3]]]
    /\ lock' = 0
    /\ UNCHANGED << phase, accounts, sessions_path, files, sessions, clock, ticks >>

\* a handler is between its first and its last step
InFlight(i) == req[i].pc \notin { "idle", "done", "panicked" }

\* the process is stopped while no request is in flight and started again
\* with the same arguments: main() loads the table from sessions_path
Restart ==
    /\ phase = "serving"
    /\ \A i \in Slots : ~InFlight(i)
    /\ IF files[sessions_path] = Absent
       THEN /\ phase' = "crashed"
            /\ UNCHANGED sessions
       ELSE /\ sessions' = LoadSessions(files[sessions_path])
            /\ UNCHANGED phase
    /\ UNCHANGED << accounts, sessions_path, files, lock, clock, ticks, req >>

Next ==
    \/ \E arg \in { None, Some("alt.json") } : Main(arg)
    \/ \E d \in TickSteps : Tick(d)
    \/ \E i \in Slots, body \in JoinBodies, dnsOk \in BOOLEAN : JoinStart(i, body, dnsOk)
    \/ \E i \in Slots, res \in { None } \cup { Some(p) : p \in Profiles } : JoinAccount(i, res)
    \/ \E i \in Slots, out \in ProfileOutcomes : JoinProfile(i, out)
    \/ \E i \in Slots, w \in WriteResults : JoinRecord(i, w)
    \/ \E i \in Slots, out \in { << "err" >> } \cup { << "ok", st >> : st \in Statuses } :
           JoinProxy(i, out)
    \/ \E i \in Slots, qname \in Usernames, serverId \in Servers, dnsOk \in BOOLEAN :
           HasJoinedStart(i, qname, serverId, dnsOk)
    \/ \E i \in Slots, checks \in BOOLEAN : HasJoinedLock(i, checks)
    \/ \E i \in Slots, out \in UpstreamOutcomes : HasJoinedRelay(i, out)

Spec == Init /\ [][Next]_vars

\* the service when every call that was sent is answered or fails, and a
\* handler that waits for the free lock gets it (the tokio Mutex is fair)
Fairness ==
    /\ WF_vars(\E i \in Slots, res \in { None } \cup { Some(p) : p \in Profiles } :
                  JoinAccount(i, res))
    /\ WF_vars(\E i \in Slots, out \in ProfileOutcomes : JoinProfile(i, out))
    /\ WF_vars(\E i \in Slots, w \in WriteResults : JoinRecord(i, w))
    /\ WF_vars(\E i \in Slots, out \in { << "err" >> } \cup { << "ok", st >> : st \in Statuses } :
                  JoinProxy(i, out))
    /\ WF_vars(\E i \in Slots, checks \in BOOLEAN : HasJoinedLock(i, checks))
    /\ WF_vars(\E i \in Slots, out \in UpstreamOutcomes : HasJoinedRelay(i, out))
\* started with the File backend on the document of an earlier run
FairInit ==
    /\ Init
    /\ accounts = "File"
    /\ files["sessions.json"] = JsonFile(ToJson(OldTable))
FairSpec == FairInit /\ [][Next]_vars /\ Fairness

\* the service with restarts of the process, also for a table that is kept
\* at the path given with --sessions
InitRestart ==
    /\ phase = "boot"
    /\ accounts \in { "File", "API" }
    /\ sessions_path = ""
    /\ files \in InitFiles \cup AltFiles
    /\ sessions = EmptyMap
    /\ lock = 0
    /\ clock \in StartClocks
    /\ ticks = 0
    /\ req = [i \in Slots |-> Idle]
NextRestart == Next \/ Restart
SpecRestart == InitRestart /\ [][NextRestart]_vars

\* =============================================================== claims
IsJoin(i) == req[i].kind = "join"
IsHasJoined(i) == req[i].kind = "hasJoined"
\* a join that recorded and answered 204
Recorded(j) == IsJoin(j) /\ req[j].pc = "done" /\ req[j].wrote /\ req[j].status = 204
\* a has-joined that has looked the table up and still holds the guard, so
\* that `sessions` is the table it saw
Looked(h) == IsHasJoined(h) /\ req[h].pc \in { "hit", "miss" }
\* the (username, serverToken, timestamp) entries of a table
Entries(tbl) ==
    UNION { { << k, s, tbl[k].servers[s] >> : s \in DOMAIN tbl[k].servers } : k \in DOMAIN tbl }

\* C1: after a credentialed join has recorded (username, profileId,
\* serverToken) at time t, a has-joined check for the same username and
\* serverToken at a time t' with t <= t' and t' - t <= 60 takes the local
\* path and fetches exactly the profileId supplied in that join.
C1_RecordThenCheck ==
    \A j \in Slots, h \in Slots :
        ( /\ Recorded(j) /\ Looked(h)
          /\ req[h].qname = req[j].name
          /\ req[h].serverId = req[j].serverId
          /\ req[j].recAt <= req[h].now
          /\ req[h].now - req[j].recAt <= Window )
        => /\ req[h].path = "hit"
           /\ req[h].call = << "GET profile unsigned=false", req[j].selectedProfile >>

\* C2: once clock - timestamp > 60 for an entry of the store, (a) a join
\* that records after that point removes the entry from the table and from
\* the persisted document (stated for the entries the join does not itself
\* overwrite), and (b) a has-joined check for that username and
\* serverToken whose clock sample is taken after that point misses locally
\* and is forwarded upstream.
C2_JoinPrunes ==
    \A j \in Slots, e \in Entries(sessions) :
        ( /\ IsJoin(j) /\ req[j].pc = "lock" /\ Recorded(j)'
          /\ << e[1], e[2] >> # << req[j].username, req[j].serverId >>
          /\ clock - e[3] > Window )
        => /\ e \notin Entries(sessions')
           /\ files'["sessions.json"][1] = "json"
           /\ e \notin Entries(FromJson(files'["sessions.json"][2]))
C2_CheckMisses ==
    \A h \in Slots, e \in Entries(sessions) :
        ( /\ Looked(h)
          /\ e[1] = req[h].username /\ e[2] = req[h].serverId
          /\ req[h].now - e[3] > Window )
        => /\ req[h].path = "miss"
           /\ req[h].call[1] = "GET hasJoined"
C2_Eviction == [][C2_JoinPrunes]_vars /\ []C2_CheckMisses

\* C3: a join recorded under a name in any letter case is found by a
\* has-joined check within 60 seconds for the same serverToken under any
\* other letter case of the name, and two joins whose names differ only in
\* case share one session.
C3_CaseInsensitive ==
    /\ \A j \in Slots, h \in Slots :
        ( /\ Recorded(j) /\ Looked(h)
          /\ req[h].qname # req[j].name
          /\ ToLowercase(req[h].qname) = ToLowercase(req[j].name)
          /\ req[h].serverId = req[j].serverId
          /\ req[j].recAt <= req[h].now
          /\ req[h].now - req[j].recAt <= Window )
        => req[h].path = "hit"
    /\ \A j \in Slots, k \in Slots :
        ( /\ Recorded(j) /\ Recorded(k)
          /\ ToLowercase(req[j].name) = ToLowercase(req[k].name) )
        => /\ req[j].username = req[k].username
           /\ req[j].username \in DOMAIN sessions

\* C4: a join whose authString is present and whose account lookup returns
\* nothing, or a name not exactly equal to selectedProfile, is answered 401,
\* sends nothing upstream and does not touch the table or the document.
C4_Unauthorized ==
    \A i \in Slots :
        ( /\ IsJoin(i) /\ req[i].acct
          /\ (req[i].acctRes = None \/ req[i].acctRes[1] # req[i].selectedProfile) )
        => /\ req[i].pc = "done"
           /\ req[i].status = 401
           /\ req[i].call = << >>
           /\ ~req[i].wrote
\* a 401 for a resolved name that differs from selectedProfile in case only
C4_Witness ==
    \E i \in Slots :
        /\ IsJoin(i) /\ req[i].acct /\ req[i].status = 401
        /\ req[i].acctRes # None
        /\ req[i].acctRes[1] # req[i].selectedProfile
        /\ ToLowercase(req[i].acctRes[1]) = ToLowercase(req[i].selectedProfile)

\* C5: a join without authString is answered with the status code the
\* upstream join returned, whatever it is, never consults the account
\* resolver and does not touch the table or the document.
C5_PassThrough ==
    \A i \in Slots :
        ( IsJoin(i) /\ req[i].pc # "idle" /\ Field(req[i].body, "authString") \in { None, Some(JNull) }
          /\ req[i].body # {} )
        => /\ ~req[i].acct
           /\ ~req[i].wrote
           /\ (req[i].reply # << >> /\ req[i].reply[1] = "ok")
                => (req[i].pc = "done" /\ req[i].status = req[i].reply[2])
\* a pass-through join answered 403 because upstream answered 403
C5_Witness ==
    \E i \in Slots :
        /\ IsJoin(i) /\ req[i].body # {} /\ ParseAuth(req[i].body) = None
        /\ req[i].pc = "done" /\ req[i].status = 403
        /\ req[i].reply = << "ok", 403 >>

\* C6: the body sent to the upstream join endpoint for a join without
\* credential is the request body itself: every field the client sent with
\* its value, and no field the client did not send.
C6_VerbatimBody ==
    \A i \in Slots :
        (IsJoin(i) /\ req[i].call # << >> /\ req[i].call[1] = "POST join")
        => req[i].call[2] = req[i].body

\* the table entry a has-joined request asks about is present and, by the
\* window of 60 seconds, not expired at the request's clock sample
UnexpiredEntry(h) ==
    /\ req[h].username \in DOMAIN sessions
    /\ req[h].serverId \in DOMAIN sessions[req[h].username].servers
    /\ req[h].now - sessions[req[h].username].servers[req[h].serverId] <= Window

\* C7: a has-joined request fetches the stored profileId's profile from
\* upstream exactly when a session exists for the lower-cased username with
\* an unexpired entry for the request's serverId, and otherwise forwards the
\* request's serverId and username (as lower-cased by the handler) to the
\* upstream has-joined endpoint; in both paths the response is the status
\* and body upstream returned.
C7_PathSelection ==
    \A h \in Slots :
        /\ IsHasJoined(h) => req[h].path # "overflow"
        /\ Looked(h) =>
            /\ req[h].username = ToLowercase(req[h].qname)
            /\ (req[h].path = "hit") <=> UnexpiredEntry(h)
            /\ req[h].path = "hit" =>
                 req[h].call = << "GET profile unsigned=false",
                                  sessions[req[h].username].uuid >>
            /\ req[h].path # "hit" =>
                 req[h].call = << "GET hasJoined", req[h].serverId, req[h].username >>
        /\ (IsHasJoined(h) /\ req[h].reply # << >> /\ req[h].reply[1] = "ok") =>
            /\ req[h].pc = "done"
            /\ req[h].status = req[h].reply[2]
            /\ req[h].rbody = req[h].reply[3]

\* two joins that both recorded, under different usernames, each accepted
\* before the other recorded
TwoJoins(j, k) ==
    /\ j # k /\ Recorded(j) /\ Recorded(k)
    /\ req[j].username # req[k].username
    /\ req[j].now <= req[k].recAt /\ req[k].now <= req[j].recAt
\* the table holds the session of join x with x's profileId and x's entry
HoldsOwn(tbl, x) ==
    /\ req[x].username \in DOMAIN tbl
    /\ tbl[req[x].username].uuid = req[x].selectedProfile
    /\ << req[x].username, req[x].serverId, req[x].now >> \in Entries(tbl)
\* the same, as far as the code provides it: the profileId is x's when x
\* created the session, and the entry is there unless join y pruned it
HoldsOwnUnlessPruned(tbl, x, y) ==
    /\ req[x].username \in DOMAIN tbl
    /\ req[x].created => tbl[req[x].username].uuid = req[x].selectedProfile
    /\ \/ << req[x].username, req[x].serverId, req[x].now >> \in Entries(tbl)
       \/ req[y].now - req[x].now > Window
PersistedTable ==
    IF files["sessions.json"][1] = "json"
    THEN FromJson(files["sessions.json"][2]) ELSE EmptyMap

\* C8 as stated: once two concurrent credentialed joins for two different
\* usernames have both returned 204, the table and the persisted document
\* both hold, for each, a session with that join's own profileId and its own
\* (serverToken, timestamp) entry.
C8_NoLostUpdates ==
    \A j \in Slots, k \in Slots :
        TwoJoins(j, k) =>
            /\ HoldsOwn(sessions, j) /\ HoldsOwn(sessions, k)
            /\ HoldsOwn(PersistedTable, j) /\ HoldsOwn(PersistedTable, k)

\* C8 as amended: both sessions are in the table and in the document; a
\* session created by one of the joins holds that join's profileId, and a
\* join's own entry is missing only when the other join's clock sample is
\* more than 60 seconds past the entry's timestamp.
C8_NoLostUpdatesAmended ==
    \A j \in Slots, k \in Slots :
        TwoJoins(j, k) =>
            /\ HoldsOwnUnlessPruned(sessions, j, k)
            /\ HoldsOwnUnlessPruned(sessions, k, j)
            /\ files["sessions.json"][1] = "json"
            /\ HoldsOwnUnlessPruned(PersistedTable, j, k)
            /\ HoldsOwnUnlessPruned(PersistedTable, k, j)
\* both joins are recorded, each created its session, and both entries are
\* in the table and in the document
C8_Witness ==
    \E j \in Slots, k \in Slots :
        /\ TwoJoins(j, k)
        /\ req[j].created /\ req[k].created
        /\ HoldsOwn(sessions, j) /\ HoldsOwn(sessions, k)
        /\ HoldsOwn(PersistedTable, j) /\ HoldsOwn(PersistedTable, k)

\* C9: no handler holds the session-store lock while it waits for an
\* upstream response, so a request that is ready for the store is never
\* kept from it by another request's unanswered upstream call.
C9_NoLockAcrossNetwork ==
    \A i \in Slots : lock = i => req[i].pc \notin { "hit", "miss" }

\* C10: whether the session-store file is absent or cannot be parsed,
\* startup does not fail and the service serves with an empty table.
C10_StartupTolerant ==
    /\ phase # "crashed"
    /\ ( /\ phase = "serving"
         /\ \A i \in Slots : ~req[i].wrote
         /\ \A p \in Paths : files[p][1] # "json" )
       => sessions = EmptyMap

\* the profile GET of a join yielded a body without a usable name
Malformed(i) == IsJoin(i) /\ req[i].acct /\ Authorized(req[i].acctRes, req[i].selectedProfile)
                /\ req[i].pc \in { "done", "panicked" } /\ req[i].name = << >>
                /\ req[i].fault # "transport"

\* C11: a join whose credential resolves to selectedProfile and whose
\* upstream profile response has no usable name (no string `name` field, or
\* a body that is not JSON) is answered 503 and does not touch the table or
\* the document.
C11_Malformed503 ==
    \A i \in Slots :
        Malformed(i) => /\ req[i].pc = "done"
                        /\ req[i].status = 503
                        /\ ~req[i].wrote

\* C12: a request that meets a resolver failure or a transport error toward
\* upstream is answered with a 5xx status, the call is not made again, and
\* the table and the document are as they were; later requests are served.
C12_FailureContained ==
    \A i \in Slots :
        req[i].fault \in { "resolver", "transport" } =>
            /\ req[i].pc = "done"
            /\ 500 <= req[i].status /\ req[i].status <= 599
            /\ ~req[i].wrote

\* C13: no step of a has-joined request, on the hit path or on the miss
\* path and whatever upstream answers, changes the session table or the
\* persisted document; in particular expired entries stay in the table.
C13_ReadOnly ==
    [][ \A h \in Slots :
            (IsHasJoined(h)' /\ req'[h] # req[h])
            => (sessions' = sessions /\ files' = files) ]_vars
\* a has-joined request has been answered on the miss path and the expired
\* entry it asked about is still in the table
C13_Witness ==
    \E h \in Slots, e \in Entries(sessions) :
        /\ IsHasJoined(h) /\ req[h].pc = "done" /\ req[h].path = "miss"
        /\ e[1] = req[h].username /\ e[2] = req[h].serverId
        /\ req[h].now - e[3] > Window

\* C14: once a join has recorded and answered 204, in every state in which
\* no handler holds the lock the persisted document is the serialisation of
\* the table; and a join that answered 204 has its entry in the document
\* (as long as no other join has rewritten the document since).
C14_ImageMatchesMemory ==
    /\ ((\E j \in Slots : Recorded(j)) /\ lock = 0)
        => files["sessions.json"] = JsonFile(ToJson(sessions))
    /\ \A j \in Slots :
        (Recorded(j) /\ \A k \in Slots : (k # j /\ IsJoin(k)) => ~req[k].wrote)
        => << req[j].username, req[j].serverId, req[j].now >> \in Entries(PersistedTable)

\* C15: whatever session-store path is configured, when the process is
\* restarted with the same arguments after a join has recorded (and no
\* write of a join has failed), it serves again and the table it loads is
\* the table the last recorded join persisted.
C15_RestartRoundTrip ==
    [][ ( /\ Restart
          /\ \E j \in Slots : Recorded(j)
          /\ \A k \in Slots : (IsJoin(k) /\ req[k].wrote) => Recorded(k) )
        => (phase' = "serving" /\ sessions' = PersistedTable) ]_vars

\* C16: the timestamp a join writes for its serverToken, and the time its
\* prune pass uses, is the clock at the moment the table is updated under
\* the lock: right after a join has recorded, its entry carries the current
\* clock and every entry of the table satisfies clock - timestamp <= 60.
C16_CurrentTimestamps ==
    [][ \A j \in Slots :
            (IsJoin(j) /\ req[j].pc = "lock" /\ req'[j].wrote)
            => /\ sessions'[req[j].username].servers[req[j].serverId] = clock
               /\ \A e \in Entries(sessions') : clock - e[3] <= Window ]_vars

\* C17: no step of a join or has-joined request removes a username from
\* the table or changes the profileId of a session that exists, also when
\* the join supplies another profileId; pruning empties servers maps only.
C17_SessionsKept ==
    [][ \A u \in DOMAIN sessions :
            /\ u \in DOMAIN sessions'
            /\ sessions'[u].uuid = sessions[u].uuid ]_vars
\* a join with another profileId has recorded under a username that had a
\* session: the session keeps the profileId it had, and the entry it had
\* was pruned
C17_Witness ==
    \E j \in Slots :
        /\ Recorded(j) /\ ~req[j].created
        /\ sessions[req[j].username].uuid # req[j].selectedProfile
        /\ DOMAIN sessions[req[j].username].servers = { req[j].serverId }
        /\ req[j].serverId # "s1"

\* C18: for every clock sample and every stored timestamp, the expiry test
\* of has-joined does not overflow, counts the entry as valid exactly when
\* now - timestamp <= 60 (a timestamp after now counts as valid), and
\* agrees with the prune test of join at the same now.
C18_TestsAgree ==
    \A h \in Slots, e \in Entries(sessions) :
        (IsHasJoined(h) /\ req[h].pc = "lock")
        => LET now == req[h].now
               timestamp == e[3]
           IN  /\ ~ExpiryOverflows(now)
               /\ Unexpired(timestamp, now) <=> (ULt(now, timestamp) \/ now - timestamp <= Window)
               /\ Unexpired(timestamp, now) <=> Retained(timestamp, now)

\* C19: when every call that was sent returns and waiting handlers are
\* scheduled, every request that was accepted finishes (with a response or
\* by a failure of its handler) and the lock, once taken, is released, also
\* when its holder fails on an upstream error or on a write error.
C19_Progress ==
    /\ \A i \in Slots : InFlight(i) ~> ~InFlight(i)
    /\ (lock # 0) ~> (lock = 0)
\* a has-joined handler failed on an upstream error while it held the lock,
\* a join failed on its write, both are finished and the lock is free
C19_Witness ==
    \E h \in Slots, j \in Slots :
        /\ IsHasJoined(h) /\ req[h].fault = "transport" /\ req[h].path \in { "hit", "miss" }
        /\ IsJoin(j) /\ req[j].fault = "write"
        /\ lock = 0

====
